---- MODULE Spec2Model ----
(***************************************************************************)
(* Calendar resolution and invariant validation of suc-shared-data         *)
(* (src/src/selectors/calendar.mjs).                                       *)
(*                                                                         *)
(* Representation of JavaScript values:                                    *)
(*   - a string the code parses (a civil date, a workout reference, a      *)
(*     workoutId) is a sequence of one-character strings;                  *)
(*   - an identifier the code only compares (seasonId, weekId, blockId,    *)
(*     timezone, status, tier, weekday key) is a TLA+ string;              *)
(*   - an instant (a JS Date) and every epoch value is counted in hours    *)
(*     since 1970-01-01T00:00Z (one unit = 3 600 000 ms): Date.UTC of a    *)
(*     civil date is a whole number of days, and the offsets of the two    *)
(*     modelled zones are whole hours;                                     *)
(*   - the result of a call is a record with a kind: "throw" (with the     *)
(*     rule that raised), "null", or the kind of value returned.           *)
(***************************************************************************)
EXTENDS Integers, Sequences, FiniteSets

VARIABLES data, call

vars == <<data, call>>

----------------------------------------------------------------------------
(* Constants of the module under test.                                      *)

DEFAULT_TIME_ZONE == "America/Los_Angeles"

DAY_KEYS == <<"mon", "tue", "wed", "thu", "fri", "sat", "sun">>

WEEKDAY_TO_KEY ==
  [w \in {"Mon", "Tue", "Wed", "Thu", "Fri", "Sat", "Sun"} |->
     CASE w = "Mon" -> "mon" [] w = "Tue" -> "tue" [] w = "Wed" -> "wed"
       [] w = "Thu" -> "thu" [] w = "Fri" -> "fri" [] w = "Sat" -> "sat"
       [] w = "Sun" -> "sun"]

Range(s) == {s[i] : i \in DOMAIN s}

Throw(rule, id) == [kind |-> "throw", rule |-> rule, id |-> id]

Null == [kind |-> "null"]

\* F(value), with value computed once (a const binding of the code).
With(value, F(_)) == CHOOSE result \in {F(v) : v \in {value}} : TRUE

----------------------------------------------------------------------------
(* Characters, in UTF-16 code unit order as far as the code compares them.  *)

DigitSeq == <<"0", "1", "2", "3", "4", "5", "6", "7", "8", "9">>

Digits == Range(DigitSeq)

LowerCase ==
  {"a", "b", "c", "d", "e", "f", "g", "h", "i", "j", "k", "l", "m",
   "n", "o", "p", "q", "r", "s", "t", "u", "v", "w", "x", "y", "z"}

\* "-" (0x2D) sorts before the digits (0x30..0x39), which sort before letters.
CharCode(c) ==
  IF c = "-" THEN 0
  ELSE IF c \in Digits THEN CHOOSE i \in 1..10 : DigitSeq[i] = c
  ELSE 11

DigitValue(c) == (CHOOSE i \in 1..10 : DigitSeq[i] = c) - 1

\* String(n) for a non-negative integer n.
RECURSIVE NumberToString(_)
NumberToString(n) ==
  IF n < 10 THEN <<DigitSeq[n + 1]>>
  ELSE NumberToString(n \div 10) \o <<DigitSeq[(n % 10) + 1]>>

\* s.padStart(width, "0")
RECURSIVE PadStart(_, _)
PadStart(s, width) == IF Len(s) >= width THEN s ELSE PadStart(<<"0">> \o s, width)

\* Number(s) is an integer exactly for the empty string (0) and for a string
\* of decimal digits, among the strings over digits, letters, "-" and "@".
IsIntegerString(s) == \A i \in DOMAIN s : s[i] \in Digits

RECURSIVE StringToNumber(_)
StringToNumber(s) ==
  IF s = <<>> THEN 0
  ELSE 10 * StringToNumber(SubSeq(s, 1, Len(s) - 1)) + DigitValue(s[Len(s)])

\* s.split("-")
RECURSIVE SplitDash(_)
SplitDash(s) ==
  IF \A i \in DOMAIN s : s[i] # "-" THEN <<s>>
  ELSE LET p == CHOOSE i \in DOMAIN s : s[i] = "-" /\ \A j \in 1..(i - 1) : s[j] # "-"
       IN  <<SubSeq(s, 1, p - 1)>> \o SplitDash(SubSeq(s, p + 1, Len(s)))

\* a < b on JS strings: lexicographic by code unit.
RECURSIVE StringLess(_, _)
StringLess(a, b) ==
  IF b = <<>> THEN FALSE
  ELSE IF a = <<>> THEN TRUE
  ELSE IF a[1] # b[1] THEN CharCode(a[1]) < CharCode(b[1])
  ELSE StringLess(Tail(a), Tail(b))

----------------------------------------------------------------------------
(* ECMAScript date arithmetic (proleptic Gregorian calendar).               *)

\* Day number of the civil date y-m-d, m in 1..12; 1970-01-01 is day 0.
DaysFromCivil(y, m, d) ==
  LET yy  == IF m <= 2 THEN y - 1 ELSE y
      era == yy \div 400
      yoe == yy - era * 400
      mp  == (m + 9) % 12
      doy == (153 * mp + 2) \div 5 + d - 1
      doe == yoe * 365 + yoe \div 4 - yoe \div 100 + doy
  IN  era * 146097 + doe - 719468

\* The civil date of a day number.
CivilFromDays(z) ==
  LET zz  == z + 719468
      era == zz \div 146097
      doe == zz - era * 146097
      yoe == (doe - doe \div 1460 + doe \div 36524 - doe \div 146096) \div 365
      doy == doe - (365 * yoe + yoe \div 4 - yoe \div 100)
      mp  == (5 * doy + 2) \div 153
      d   == doy - (153 * mp + 2) \div 5 + 1
      m   == IF mp < 10 THEN mp + 3 ELSE mp - 9
  IN  [year |-> IF m <= 2 THEN yoe + era * 400 + 1 ELSE yoe + era * 400,
       month |-> m, day |-> d]

\* Date.UTC(year, monthIndex, day, hours): months and days out of range roll
\* over into the neighbouring months and years; years 0..99 mean 1900..1999.
DateUTC(year, monthIndex, day, hours) ==
  LET y  == IF year >= 0 /\ year <= 99 THEN 1900 + year ELSE year
      ym == y + (monthIndex \div 12)
      mn == monthIndex % 12
  IN  (DaysFromCivil(ym, mn + 1, 1) + day - 1) * 24 + hours

\* Weekday of a day number, as Intl's short name (day 0 was a Thursday).
WeekdayNames == <<"Mon", "Tue", "Wed", "Thu", "Fri", "Sat", "Sun">>

WeekdayOfDay(z) == WeekdayNames[((z + 3) % 7) + 1]

\* The first Sunday on or after the civil date y-m-d, as a day number.
FirstSundayFrom(y, m, d) ==
  LET z == DaysFromCivil(y, m, d)
  IN  CHOOSE s \in z..(z + 6) : WeekdayOfDay(s) = "Sun"

\* UTC offset, in hours, of a zone at an instant.  America/Los_Angeles is on
\* daylight time (UTC-7) from 02:00 PST on the second Sunday of March to
\* 02:00 PDT on the first Sunday of November, and on UTC-8 otherwise.
ZoneOffset(timeZone, t) ==
  IF timeZone = "America/Los_Angeles"
  THEN LET y        == CivilFromDays(t \div 24).year
           dstStart == FirstSundayFrom(y, 3, 8) * 24 + 10
           dstEnd   == FirstSundayFrom(y, 11, 1) * 24 + 9
       IN  IF t >= dstStart /\ t < dstEnd THEN 0 - 7 ELSE 0 - 8
  ELSE 0

----------------------------------------------------------------------------
(* Civil Date Normalizer.                                                   *)

\* The wall-clock date and weekday of an instant in a zone (Intl.DateTimeFormat).
getZonedDateParts(date, timeZone) ==
  With((date + ZoneOffset(timeZone, date)) \div 24, LAMBDA z :
    With(CivilFromDays(z), LAMBDA c :
      [year |-> c.year, month |-> c.month, day |-> c.day, weekday |-> WeekdayOfDay(z)]))

formatCivilDate(parts) ==
  PadStart(NumberToString(parts.year), 4) \o <<"-">> \o
  PadStart(NumberToString(parts.month), 2) \o <<"-">> \o
  PadStart(NumberToString(parts.day), 2)

toCivilDateString(date, timeZone) == formatCivilDate(getZonedDateParts(date, timeZone))

\* The assertion of civilDateToEpochMs: the first three "-"-separated parts
\* are integers.  (A part that is absent is undefined, not an integer.)
civilDateIsValid(civilDate) ==
  LET parts == SplitDash(civilDate)
  IN  /\ Len(parts) >= 3
      /\ \A i \in 1..3 : IsIntegerString(parts[i])

\* The value civilDateToEpochMs returns when its assertion passes.
civilDateToEpochMs(civilDate) ==
  LET parts == SplitDash(civilDate)
  IN  DateUTC(StringToNumber(parts[1]), StringToNumber(parts[2]) - 1,
              StringToNumber(parts[3]), 0)

addDaysToCivilDate(civilDate, days) ==
  LET ms   == civilDateToEpochMs(civilDate)
      next == CivilFromDays((ms + days * 24) \div 24)
  IN  formatCivilDate(next)

\* Weekday, in the zone, of 12:00Z on the civil date.
weekdayForCivilDate(civilDate, timeZone) ==
  LET parts == SplitDash(civilDate)
      date  == DateUTC(StringToNumber(parts[1]), StringToNumber(parts[2]) - 1,
                       StringToNumber(parts[3]), 12)
  IN  WeekdayOfDay((date + ZoneOffset(timeZone, date)) \div 24)

\* A day key taken from the weekday of the instant in UTC.
dayKeyForDateUtc(date, timeZone) == WEEKDAY_TO_KEY[WeekdayOfDay(date \div 24)]

dayKeyForDate(date, timeZone) == WEEKDAY_TO_KEY[getZonedDateParts(date, timeZone).weekday]

----------------------------------------------------------------------------
(* Week shape, workout references, tiers.                                   *)

\* A day slot holds null, a string or something else; week.workouts is an
\* object with slots by key, or not an object.
JsNull == [t |-> "null"]

JsString(s) == [t |-> "string", s |-> s]

JsNumber == [t |-> "number"]

JsObject(slots) == [t |-> "object", slots |-> slots]

Ok == [kind |-> "ok"]

\* A shape test that only asks for the seven day keys to be there.
assertWeekWorkoutsShapeAllowsExtraKeys(week) ==
  LET workouts == week.workouts
      keys     == IF workouts.t = "object" THEN DOMAIN workouts.slots ELSE {}
      missing  == {i \in DOMAIN DAY_KEYS : DAY_KEYS[i] \notin keys}
  IN  IF workouts.t # "object"
        THEN Throw("week.workouts must be an object", "")
      ELSE IF missing # {}
        THEN Throw("week.workouts key is missing",
                   DAY_KEYS[CHOOSE i \in missing : \A j \in missing : i <= j])
      ELSE Ok

assertWeekWorkoutsShape(week) ==
  LET workouts == week.workouts
      keys     == IF workouts.t = "object" THEN DOMAIN workouts.slots ELSE {}
      missing  == {i \in DOMAIN DAY_KEYS : DAY_KEYS[i] \notin keys}
  IN  IF workouts.t # "object"
        THEN Throw("week.workouts must be an object", "")
      ELSE IF Cardinality(keys) # Len(DAY_KEYS)
        THEN Throw("week.workouts must have exactly 7 day keys", "")
      ELSE IF missing # {}
        THEN Throw("week.workouts key is missing",
                   DAY_KEYS[CHOOSE i \in missing : \A j \in missing : i <= j])
      ELSE IF \E k \in keys : k \notin Range(DAY_KEYS)
        THEN Throw("week.workouts has invalid key", "")
      ELSE Ok

\* /^([a-z0-9-]+)@v([1-9][0-9]*)$/
IdChars == LowerCase \cup Digits \cup {"-"}

parseWorkoutRef(value) ==
  LET ats == {i \in DOMAIN value : value[i] = "@"}
      p   == CHOOSE i \in ats : \A j \in ats : i <= j
      n   == Len(value)
  IN  IF /\ ats # {}
         /\ p >= 2
         /\ \A i \in 1..(p - 1) : value[i] \in IdChars
         /\ n >= p + 2
         /\ value[p + 1] = "v"
         /\ value[p + 2] \in Digits \ {"0"}
         /\ \A i \in (p + 3)..n : value[i] \in Digits
      THEN [kind |-> "ref", workoutId |-> SubSeq(value, 1, p - 1),
            version |-> StringToNumber(SubSeq(value, p + 2, n))]
      ELSE Throw("Invalid workout reference", value)

\* A tier variant is truthy unless it is the empty value.
Falsy == ""

\* A fallback table whose XL row tries MED before LRG.
fallbackOrderXlMedFirst(tier) ==
  CASE tier = "MED" -> <<"MED", "LRG", "XL">>
    [] tier = "LRG" -> <<"LRG", "MED", "XL">>
    [] tier = "XL"  -> <<"XL", "MED", "LRG">>
    [] OTHER        -> <<"MED", "LRG", "XL">>

fallbackOrder(tier) ==
  CASE tier = "MED" -> <<"MED", "LRG", "XL">>
    [] tier = "LRG" -> <<"LRG", "MED", "XL">>
    [] tier = "XL"  -> <<"XL", "LRG", "MED">>
    [] OTHER        -> <<"MED", "LRG", "XL">>

resolveTierVariant(workout, tier) ==
  LET tiers      == workout.tiers
      candidates == fallbackOrder(tier)
      hits       == {i \in DOMAIN candidates :
                       candidates[i] \in DOMAIN tiers /\ tiers[candidates[i]] # Falsy}
  IN  IF hits # {}
      THEN LET key == candidates[CHOOSE i \in hits : \A j \in hits : i <= j]
           IN  [kind |-> "variant", variant |-> tiers[key], sourceTier |-> key]
      ELSE Throw("Workout has no tier variants", workout.workoutId)

\* A lookup that does not look at the status.
resolveWorkoutByVersionWithDrafts(workouts, workoutId, version) ==
  LET hits == {i \in DOMAIN workouts :
                 /\ workouts[i].workoutId = workoutId
                 /\ workouts[i].version = version}
  IN  IF hits # {}
      THEN [kind |-> "workout", workout |-> workouts[CHOOSE i \in hits : \A j \in hits : i <= j]]
      ELSE Null

\* A lookup that takes the first non-draft record of the workoutId, whatever
\* its version.
resolveWorkoutByVersionAnyVersion(workouts, workoutId, version) ==
  LET hits == {i \in DOMAIN workouts :
                 /\ workouts[i].workoutId = workoutId
                 /\ workouts[i].status # "draft"}
  IN  IF hits # {}
      THEN [kind |-> "workout", workout |-> workouts[CHOOSE i \in hits : \A j \in hits : i <= j]]
      ELSE Null

resolveWorkoutByVersion(workouts, workoutId, version) ==
  LET hits == {i \in DOMAIN workouts :
                 /\ workouts[i].workoutId = workoutId
                 /\ workouts[i].version = version
                 /\ workouts[i].status # "draft"}
  IN  IF hits # {}
      THEN [kind |-> "workout", workout |-> workouts[CHOOSE i \in hits : \A j \in hits : i <= j]]
      ELSE Null

----------------------------------------------------------------------------
(* Season Resolver.                                                         *)

\* A filter callback that does not compare timezones.
seasonFilterErrorAnyZone(season, timeZone) ==
  IF ~civilDateIsValid(season.startDate)
    THEN Throw("Invalid civil date", season.startDate)
  ELSE IF ~civilDateIsValid(season.endDate)
    THEN Throw("Invalid civil date", season.endDate)
  ELSE Ok

\* What the filter callback of resolveActiveSeason raises for one season, if
\* anything.
seasonFilterError(season, timeZone) ==
  IF season.timezone # timeZone
    THEN Throw("Season must use timezone", season.seasonId)
  ELSE IF ~civilDateIsValid(season.startDate)
    THEN Throw("Invalid civil date", season.startDate)
  ELSE IF ~civilDateIsValid(season.endDate)
    THEN Throw("Invalid civil date", season.endDate)
  ELSE Ok

\* The range test with the end date excluded.
seasonContainsEndExclusive(season, dateMs) ==
  LET startMs == civilDateToEpochMs(season.startDate)
      endMs   == civilDateToEpochMs(season.endDate)
  IN  dateMs >= startMs /\ dateMs < endMs

\* The filter callback's verdict for a season it accepts as well-formed.
seasonContains(season, dateMs) ==
  LET startMs == civilDateToEpochMs(season.startDate)
      endMs   == civilDateToEpochMs(season.endDate)
  IN  dateMs >= startMs /\ dateMs <= endMs

\* A reducer that keeps the last candidate whatever its start.
pickLast(latest, current) == current

\* A reducer that keeps the earlier element on equal starts.
pickLatestFirstOnTie(latest, current) ==
  LET latestStart  == civilDateToEpochMs(latest.startDate)
      currentStart == civilDateToEpochMs(current.startDate)
  IN  IF currentStart > latestStart THEN current ELSE latest

\* The reducer: the later start wins, and on equal starts the later element.
pickLatest(latest, current) ==
  LET latestStart  == civilDateToEpochMs(latest.startDate)
      currentStart == civilDateToEpochMs(current.startDate)
  IN  IF currentStart >= latestStart THEN current ELSE latest

RECURSIVE reduceLatest(_, _)
reduceLatest(latest, rest) ==
  IF rest = <<>> THEN latest
  ELSE reduceLatest(pickLatest(latest, Head(rest)), Tail(rest))

resolveActiveSeason(seasons, date, timeZone) ==
  LET dateStr == toCivilDateString(date, timeZone)
      dateMs  == civilDateToEpochMs(dateStr)
      bad     == {i \in DOMAIN seasons : seasonFilterError(seasons[i], timeZone) # Ok}
      candidates == SelectSeq(seasons, LAMBDA season : seasonContains(season, dateMs))
  IN  IF ~civilDateIsValid(dateStr)
        THEN Throw("Invalid civil date", dateStr)
      ELSE IF bad # {}
        THEN seasonFilterError(seasons[CHOOSE i \in bad : \A j \in bad : i <= j], timeZone)
      ELSE IF Len(candidates) = 0
        THEN Null
      ELSE [kind |-> "season", season |-> reduceLatest(Head(candidates), Tail(candidates))]

----------------------------------------------------------------------------
(* Week Resolver.                                                           *)

\* new Map(weeks.map(...)).get(weekId): the last record with that id wins.
weekLookup(weeks, weekId) ==
  LET hits == {i \in DOMAIN weeks : weeks[i].weekId = weekId}
  IN  IF hits = {} THEN Null
      ELSE [kind |-> "week", week |-> weeks[CHOOSE i \in hits : \A j \in hits : i >= j]]

\* A window that ends seven days after the start, one day too long.
weekContainsEightDays(week, dateMs) ==
  LET startMs == civilDateToEpochMs(week.startDate)
      endMs   == civilDateToEpochMs(addDaysToCivilDate(week.startDate, 7))
  IN  dateMs >= startMs /\ dateMs <= endMs

\* The test of the scan loop for one week.
weekContains(week, dateMs) ==
  LET startMs == civilDateToEpochMs(week.startDate)
      endMs   == civilDateToEpochMs(addDaysToCivilDate(week.startDate, 6))
  IN  dateMs >= startMs /\ dateMs <= endMs

\* A scan loop that reports the position counted from one.
RECURSIVE scanWeeksOneBased(_, _, _, _)
scanWeeksOneBased(orderedWeeks, pos, dateMs, timeZone) ==
  IF pos > Len(orderedWeeks) THEN Null
  ELSE LET week == orderedWeeks[pos]
       IN  IF ~civilDateIsValid(week.startDate)
             THEN Throw("Invalid civil date", week.startDate)
           ELSE IF weekContains(week, dateMs)
             THEN IF weekdayForCivilDate(week.startDate, timeZone) = "Mon"
                  THEN [kind |-> "week", week |-> week, index |-> pos]
                  ELSE Throw("Week must start on Monday", week.weekId)
           ELSE scanWeeksOneBased(orderedWeeks, pos + 1, dateMs, timeZone)

\* A scan loop that returns the covering week whatever weekday it starts on.
RECURSIVE scanWeeksAnyWeekday(_, _, _, _)
scanWeeksAnyWeekday(orderedWeeks, pos, dateMs, timeZone) ==
  IF pos > Len(orderedWeeks) THEN Null
  ELSE LET week == orderedWeeks[pos]
       IN  IF ~civilDateIsValid(week.startDate)
             THEN Throw("Invalid civil date", week.startDate)
           ELSE IF weekContains(week, dateMs)
             THEN [kind |-> "week", week |-> week, index |-> pos - 1]
           ELSE scanWeeksAnyWeekday(orderedWeeks, pos + 1, dateMs, timeZone)

\* The scan loop, from the 1-based position pos of orderedWeeks on; the index
\* it returns is zero-based.
RECURSIVE scanWeeks(_, _, _, _)
scanWeeks(orderedWeeks, pos, dateMs, timeZone) ==
  IF pos > Len(orderedWeeks) THEN Null
  ELSE LET week == orderedWeeks[pos]
       IN  IF ~civilDateIsValid(week.startDate)
             THEN Throw("Invalid civil date", week.startDate)
           ELSE IF weekContains(week, dateMs)
             THEN IF weekdayForCivilDate(week.startDate, timeZone) = "Mon"
                  THEN [kind |-> "week", week |-> week, index |-> pos - 1]
                  ELSE Throw("Week must start on Monday", week.weekId)
           ELSE scanWeeks(orderedWeeks, pos + 1, dateMs, timeZone)

\* A Week Resolver that answers null when season.weekIds names a week that has
\* no record.
resolveWeekForDateMissingIsNull(season, weeks, date, timeZone) ==
  IF season = Null THEN Null
  ELSE
    LET weekIds == season.season.weekIds
        dateStr == toCivilDateString(date, timeZone)
        dateMs  == civilDateToEpochMs(dateStr)
        missing == {i \in DOMAIN weekIds : weekLookup(weeks, weekIds[i]) = Null}
        orderedWeeks == [i \in DOMAIN weekIds |-> weekLookup(weeks, weekIds[i]).week]
    IN  IF ~civilDateIsValid(dateStr)
          THEN Throw("Invalid civil date", dateStr)
        ELSE IF missing # {}
          THEN Null
        ELSE scanWeeks(orderedWeeks, 1, dateMs, timeZone)

\* season is the result of the Season Resolver: a season or Null.
resolveWeekForDate(season, weeks, date, timeZone) ==
  IF season = Null THEN Null
  ELSE
    LET weekIds == season.season.weekIds
        dateStr == toCivilDateString(date, timeZone)
        dateMs  == civilDateToEpochMs(dateStr)
        missing == {i \in DOMAIN weekIds : weekLookup(weeks, weekIds[i]) = Null}
        orderedWeeks == [i \in DOMAIN weekIds |-> weekLookup(weeks, weekIds[i]).week]
    IN  IF ~civilDateIsValid(dateStr)
          THEN Throw("Invalid civil date", dateStr)
        ELSE IF missing # {}
          THEN Throw("Week not found in weeks data",
                     weekIds[CHOOSE i \in missing : \A j \in missing : i <= j])
        ELSE scanWeeks(orderedWeeks, 1, dateMs, timeZone)

----------------------------------------------------------------------------
(* Workout-of-Day Resolver.                                                 *)

\* A rest test that takes every value that is not a string for a rest day.
isRestMarkerLoose(workoutRef) == workoutRef.t # "string"

\* workoutRef === null: the explicit rest marker.
isRestMarker(workoutRef) == workoutRef = JsNull

\* Lines 204-252: the day of a resolved week.
resolveDayOfWeek(d, week, index, date, timeZone) ==
  LET shape      == assertWeekWorkoutsShape(week)
      dayKey     == dayKeyForDate(date, timeZone)
      workoutRef == week.workouts.slots[dayKey]
      parsed     == parseWorkoutRef(workoutRef.s)
      blockHits  == {i \in DOMAIN d.blocks : d.blocks[i].blockId = week.blockId}
      block      == d.blocks[CHOOSE i \in blockHits : \A j \in blockHits : i <= j]
  IN  IF shape # Ok THEN shape
      ELSE IF isRestMarker(workoutRef) THEN Null
      ELSE IF workoutRef.t # "string"
        THEN Throw("week.workouts day must be string or null", dayKey)
      ELSE IF parsed.kind = "throw" THEN parsed
      ELSE With(resolveWorkoutByVersion(d.workouts, parsed.workoutId, parsed.version),
                LAMBDA found :
        IF found = Null
          THEN Throw("Workout not found or is draft", workoutRef.s)
        ELSE IF blockHits = {}
          THEN Throw("Block not found in blocks data", week.blockId)
        ELSE
          LET workout == found.workout
              MED     == resolveTierVariant(workout, "MED")
              LRG     == resolveTierVariant(workout, "LRG")
              XL      == resolveTierVariant(workout, "XL")
          IN  IF MED.kind = "throw" THEN MED
              ELSE IF LRG.kind = "throw" THEN LRG
              ELSE IF XL.kind = "throw" THEN XL
              ELSE [kind |-> "day",
                    workout |-> workout,
                    tiers |-> [MED |-> MED.variant, LRG |-> LRG.variant,
                               XL |-> XL.variant],
                    tierSources |-> [MED |-> MED.sourceTier, LRG |-> LRG.sourceTier,
                                     XL |-> XL.sourceTier],
                    block |-> [blockId |-> block.blockId, name |-> block.name,
                               intent |-> block.intent],
                    week |-> [weekId |-> week.weekId, index |-> index,
                              startDate |-> week.startDate]])

\* A resolver that passes over the seasons with no week for the date.
resolveWorkoutOfDayAnySeasonWithWeek(d, date, timeZone) ==
  LET dateMs == civilDateToEpochMs(toCivilDateString(date, timeZone))
      hasWeek(season) ==
        \E k \in DOMAIN season.weekIds :
          /\ weekLookup(d.weeks, season.weekIds[k]) # Null
          /\ weekContains(weekLookup(d.weeks, season.weekIds[k]).week, dateMs)
  IN  With(resolveActiveSeason(SelectSeq(d.seasons, hasWeek), date, timeZone), LAMBDA season :
        IF season.kind = "throw" THEN season
        ELSE IF season = Null THEN Null
        ELSE With(resolveWeekForDate(season, d.weeks, date, timeZone), LAMBDA resolvedWeek :
          IF resolvedWeek.kind = "throw" THEN resolvedWeek
          ELSE IF resolvedWeek = Null THEN Null
          ELSE resolveDayOfWeek(d, resolvedWeek.week, resolvedWeek.index, date, timeZone)))

resolveWorkoutOfDay(d, date, timeZone) ==
  With(resolveActiveSeason(d.seasons, date, timeZone), LAMBDA season :
    IF season.kind = "throw" THEN season
    ELSE IF season = Null THEN Null
    ELSE With(resolveWeekForDate(season, d.weeks, date, timeZone), LAMBDA resolvedWeek :
      IF resolvedWeek.kind = "throw" THEN resolvedWeek
      ELSE IF resolvedWeek = Null THEN Null
      ELSE resolveDayOfWeek(d, resolvedWeek.week, resolvedWeek.index, date, timeZone)))

----------------------------------------------------------------------------
(* Invariant Validator.                                                     *)

\* The first error of a sequence of check results, in order; Ok if none.
firstThrow(results) ==
  LET bad == {i \in DOMAIN results : results[i] # Ok}
  IN  IF bad = {} THEN Ok ELSE results[CHOOSE i \in bad : \A j \in bad : i <= j]

\* `${workout.workoutId}@v${workout.version}`
workoutKey(workoutId, version) == workoutId \o <<"@", "v">> \o NumberToString(version)

\* The keys of workoutByKey: the non-draft workouts.
workoutByKey(workouts) ==
  {workoutKey(workouts[i].workoutId, workouts[i].version) :
     i \in {j \in DOMAIN workouts : workouts[j].status # "draft"}}

\* new Map(seasons.map(...)).get(seasonId): the last record with that id wins.
seasonLookup(seasons, seasonId) ==
  LET hits == {i \in DOMAIN seasons : seasons[i].seasonId = seasonId}
  IN  IF hits = {} THEN Null
      ELSE [kind |-> "season", season |-> seasons[CHOOSE i \in hits : \A j \in hits : i >= j]]

\* Season loop, first pass over weekIds: the week exists and names the season.
seasonWeekRefCheck(season, weeks, weekId) ==
  LET found == weekLookup(weeks, weekId)
  IN  IF found = Null
        THEN Throw("Week not found in weeks data", weekId)
      ELSE IF found.week.seasonId # season.seasonId
        THEN Throw("Week seasonId must match season", weekId)
      ELSE Ok

\* A last pass that asks only for the week's first day to be in the season.
seasonWeekSpanCheckStartOnly(season, week, timeZone) ==
  IF ~civilDateIsValid(week.startDate)
    THEN Throw("Invalid time value", week.startDate)
  ELSE IF weekdayForCivilDate(week.startDate, timeZone) # "Mon"
    THEN Throw("Week must start on Monday", week.weekId)
  ELSE IF ~civilDateIsValid(season.startDate)
    THEN Throw("Invalid civil date", season.startDate)
  ELSE IF ~civilDateIsValid(season.endDate)
    THEN Throw("Invalid civil date", season.endDate)
  ELSE
    LET startMs     == civilDateToEpochMs(week.startDate)
        seasonStart == civilDateToEpochMs(season.startDate)
        seasonEnd   == civilDateToEpochMs(season.endDate)
    IN  IF seasonStart <= startMs /\ seasonEnd >= startMs
        THEN Ok
        ELSE Throw("Season must contain week", season.seasonId)

\* A last pass without the Monday rule.
seasonWeekSpanCheckAnyWeekday(season, week, timeZone) ==
  IF ~civilDateIsValid(week.startDate)
    THEN Throw("Invalid time value", week.startDate)
  ELSE IF ~civilDateIsValid(season.startDate)
    THEN Throw("Invalid civil date", season.startDate)
  ELSE IF ~civilDateIsValid(season.endDate)
    THEN Throw("Invalid civil date", season.endDate)
  ELSE
    LET startMs     == civilDateToEpochMs(week.startDate)
        endMs       == civilDateToEpochMs(addDaysToCivilDate(week.startDate, 6))
        seasonStart == civilDateToEpochMs(season.startDate)
        seasonEnd   == civilDateToEpochMs(season.endDate)
    IN  IF seasonStart <= startMs /\ seasonEnd >= endMs
        THEN Ok
        ELSE Throw("Season must contain week", season.seasonId)

\* Season loop, last pass over weekIds: Monday start and containment.
seasonWeekSpanCheck(season, week, timeZone) ==
  IF ~civilDateIsValid(week.startDate)
    THEN Throw("Invalid time value", week.startDate)
  ELSE IF weekdayForCivilDate(week.startDate, timeZone) # "Mon"
    THEN Throw("Week must start on Monday", week.weekId)
  ELSE IF ~civilDateIsValid(season.startDate)
    THEN Throw("Invalid civil date", season.startDate)
  ELSE IF ~civilDateIsValid(season.endDate)
    THEN Throw("Invalid civil date", season.endDate)
  ELSE
    LET startMs     == civilDateToEpochMs(week.startDate)
        endMs       == civilDateToEpochMs(addDaysToCivilDate(week.startDate, 6))
        seasonStart == civilDateToEpochMs(season.startDate)
        seasonEnd   == civilDateToEpochMs(season.endDate)
    IN  IF seasonStart <= startMs /\ seasonEnd >= endMs
        THEN Ok
        ELSE Throw("Season must contain week", season.seasonId)

\* An order test that lets equal start dates pass.
chronologicalOrEqual(startDates) ==
  \A i \in 2..Len(startDates) : ~StringLess(startDates[i], startDates[i - 1])

\* weekStartDates[i - 1] < weekStartDates[i], compared as strings.
chronological(startDates) ==
  \A i \in 2..Len(startDates) : StringLess(startDates[i - 1], startDates[i])

\* A season loop body that lets a season without weeks pass.
seasonCheckAllowsNoWeeks(season, weeks, timeZone) ==
  LET weekIds  == season.weekIds
      refs     == firstThrow([i \in DOMAIN weekIds |->
                                seasonWeekRefCheck(season, weeks, weekIds[i])])
      ordered  == [i \in DOMAIN weekIds |-> weekLookup(weeks, weekIds[i]).week]
  IN  IF season.timezone # timeZone
        THEN Throw("Season must use timezone", season.seasonId)
      ELSE IF refs # Ok THEN refs
      ELSE IF ~chronological([i \in DOMAIN ordered |-> ordered[i].startDate])
        THEN Throw("Season weekIds must be chronological", season.seasonId)
      ELSE firstThrow([i \in DOMAIN ordered |->
                         seasonWeekSpanCheck(season, ordered[i], timeZone)])

seasonCheck(season, weeks, timeZone) ==
  LET weekIds  == season.weekIds
      refs     == firstThrow([i \in DOMAIN weekIds |->
                                seasonWeekRefCheck(season, weeks, weekIds[i])])
      ordered  == [i \in DOMAIN weekIds |-> weekLookup(weeks, weekIds[i]).week]
  IN  IF season.timezone # timeZone
        THEN Throw("Season must use timezone", season.seasonId)
      ELSE IF Len(weekIds) < 1
        THEN Throw("Season must include at least one week", season.seasonId)
      ELSE IF refs # Ok THEN refs
      ELSE IF ~chronological([i \in DOMAIN ordered |-> ordered[i].startDate])
        THEN Throw("Season weekIds must be chronological", season.seasonId)
      ELSE firstThrow([i \in DOMAIN ordered |->
                         seasonWeekSpanCheck(season, ordered[i], timeZone)])

\* A block loop body without the subset rule.
blockCheckNoSubsetRule(block, seasons, weeks) ==
  LET weekIds    == block.weekIds
      missing    == {i \in DOMAIN weekIds : weekLookup(weeks, weekIds[i]) = Null}
      blockWeeks == [i \in DOMAIN weekIds |-> weekLookup(weeks, weekIds[i]).week]
      seasonId   == blockWeeks[1].seasonId
      season     == seasonLookup(seasons, seasonId)
  IN  IF Len(weekIds) < 1
        THEN Throw("Block must include at least one week", block.blockId)
      ELSE IF missing # {}
        THEN Throw("Week not found in weeks data",
                   weekIds[CHOOSE i \in missing : \A j \in missing : i <= j])
      ELSE IF ~chronological([i \in DOMAIN blockWeeks |-> blockWeeks[i].startDate])
        THEN Throw("Block weekIds must be chronological", block.blockId)
      ELSE IF \E i \in DOMAIN blockWeeks : blockWeeks[i].seasonId # seasonId
        THEN Throw("Block cannot mix seasons", block.blockId)
      ELSE IF seasonId = ""
        THEN Ok
      ELSE IF season = Null
        THEN Throw("Season not found for block", block.blockId)
      ELSE Ok

blockCheck(block, seasons, weeks) ==
  LET weekIds    == block.weekIds
      missing    == {i \in DOMAIN weekIds : weekLookup(weeks, weekIds[i]) = Null}
      blockWeeks == [i \in DOMAIN weekIds |-> weekLookup(weeks, weekIds[i]).week]
      seasonId   == blockWeeks[1].seasonId
      season     == seasonLookup(seasons, seasonId)
  IN  IF Len(weekIds) < 1
        THEN Throw("Block must include at least one week", block.blockId)
      ELSE IF missing # {}
        THEN Throw("Week not found in weeks data",
                   weekIds[CHOOSE i \in missing : \A j \in missing : i <= j])
      ELSE IF ~chronological([i \in DOMAIN blockWeeks |-> blockWeeks[i].startDate])
        THEN Throw("Block weekIds must be chronological", block.blockId)
      ELSE IF \E i \in DOMAIN blockWeeks : blockWeeks[i].seasonId # seasonId
        THEN Throw("Block cannot mix seasons", block.blockId)
      ELSE IF seasonId = ""
        THEN Ok
      ELSE IF season = Null
        THEN Throw("Season not found for block", block.blockId)
      ELSE IF \E i \in DOMAIN blockWeeks :
                blockWeeks[i].weekId \notin Range(season.season.weekIds)
        THEN Throw("Block weekIds must be subset of season", block.blockId)
      ELSE Ok

\* Week loop, one day of one week.
weekDayCheck(week, day, keys) ==
  LET ref    == week.workouts.slots[day]
      parsed == parseWorkoutRef(ref.s)
  IN  IF ref = JsNull THEN Ok
      ELSE IF ref.t # "string"
        THEN Throw("week.workouts day must be string or null", day)
      ELSE IF parsed.kind = "throw" THEN parsed
      ELSE IF workoutKey(parsed.workoutId, parsed.version) \notin keys
        THEN Throw("Workout not found or is draft", week.weekId)
      ELSE Ok

weekCheck(week, keys) ==
  LET shape == assertWeekWorkoutsShape(week)
  IN  IF shape # Ok THEN shape
      ELSE firstThrow([i \in DOMAIN DAY_KEYS |-> weekDayCheck(week, DAY_KEYS[i], keys)])

\* A validator whose week loop visits only the weeks some season names.
assertCalendarDataReferencedWeeksOnly(d, timeZone) ==
  LET seasonErr == firstThrow([i \in DOMAIN d.seasons |->
                                 seasonCheck(d.seasons[i], d.weeks, timeZone)])
      blockErr  == firstThrow([i \in DOMAIN d.blocks |->
                                 blockCheck(d.blocks[i], d.seasons, d.weeks)])
      keys      == workoutByKey(d.workouts)
      weekErr   == firstThrow([i \in DOMAIN d.weeks |->
                                 IF \E s \in DOMAIN d.seasons :
                                      d.weeks[i].weekId \in Range(d.seasons[s].weekIds)
                                 THEN weekCheck(d.weeks[i], keys) ELSE Ok])
  IN  IF seasonErr # Ok THEN seasonErr
      ELSE IF blockErr # Ok THEN blockErr
      ELSE weekErr

assertCalendarData(d, timeZone) ==
  LET seasonErr == firstThrow([i \in DOMAIN d.seasons |->
                                 seasonCheck(d.seasons[i], d.weeks, timeZone)])
      blockErr  == firstThrow([i \in DOMAIN d.blocks |->
                                 blockCheck(d.blocks[i], d.seasons, d.weeks)])
      keys      == workoutByKey(d.workouts)
      weekErr   == firstThrow([i \in DOMAIN d.weeks |-> weekCheck(d.weeks[i], keys)])
  IN  IF seasonErr # Ok THEN seasonErr
      ELSE IF blockErr # Ok THEN blockErr
      ELSE weekErr

----------------------------------------------------------------------------
(* Bounds and input pools.                                                  *)

\* Highest workout version in a library.
MaxVersion == 2

\* Longest list of seasons handed to the Season Resolver.
MaxSeasons == 2

\* Longest season.weekIds handed to the Week Resolver.
MaxWeekIds == 2

\* Days covered by the query instants, from the day before a plan starts.
QueryDays == 16

TimeZones == {DEFAULT_TIME_ZONE, "UTC"}

Tiers == {"MED", "LRG", "XL"}

\* Day numbers of the Mondays the plans start on: 2026-03-02 (daylight time
\* starts on the first Sunday) and 2026-10-26 (daylight time ends on the first
\* Sunday).
SpringMonday == DaysFromCivil(2026, 3, 2)

AutumnMonday == DaysFromCivil(2026, 10, 26)

DayString(z) == formatCivilDate(CivilFromDays(z))

\* Instants at the given UTC hours of QueryDays consecutive days.
InstantsFrom(firstDay, hours) ==
  {(firstDay + k) * 24 + h : k \in 0..(QueryDays - 1), h \in hours}

EmptyData == [seasons |-> <<>>, blocks |-> <<>>, weeks |-> <<>>, workouts |-> <<>>]

\* The functions are pure and keep nothing between calls: a behaviour is one
\* call on one snapshot of the data, recorded with its arguments and result.
NoCall == [op |-> "none"]

----------------------------------------------------------------------------
(* Tier Fallback Resolver on its own.                                       *)

WorkoutA == <<"w", "-", "a">>

WorkoutB == <<"w", "-", "b">>

VariantName(tier) ==
  CASE tier = "MED" -> "variant MED" [] tier = "LRG" -> "variant LRG"
    [] tier = "XL" -> "variant XL"

\* Every tiers object over MED/LRG/XL: each tier absent, falsy or a variant.
TierMaps ==
  UNION {{[t \in present |-> IF t \in falsy THEN Falsy ELSE VariantName(t)] :
            falsy \in SUBSET present} : present \in SUBSET Tiers}

Workout(workoutId, version, status, tiers) ==
  [workoutId |-> workoutId, version |-> version, status |-> status, tiers |-> tiers]

InitTier ==
  /\ \E version \in 1..MaxVersion, status \in {"published", "archived"}, tiers \in TierMaps :
       data = [EmptyData EXCEPT !.workouts = <<Workout(WorkoutA, version, status, tiers)>>]
  /\ call = NoCall

ResolveTierVariant ==
  \E i \in DOMAIN data.workouts, tier \in Tiers :
    /\ call = NoCall
    /\ call' = [op |-> "resolveTierVariant", workout |-> data.workouts[i], tier |-> tier,
                result |-> resolveTierVariant(data.workouts[i], tier)]
    /\ UNCHANGED data

NextTier == ResolveTierVariant

SpecTier == InitTier /\ [][NextTier]_vars

\* A tier is present on a workout when its variant is there and truthy.
TierPresent(workout, tier) == tier \in DOMAIN workout.tiers /\ workout.tiers[tier] # Falsy

\* The tier the claim expects to serve a request, "none" if no tier is present.
ExpectedSourceTier(workout, tier) ==
  LET first(a, b, c) == IF TierPresent(workout, a) THEN a
                        ELSE IF TierPresent(workout, b) THEN b
                        ELSE IF TierPresent(workout, c) THEN c
                        ELSE "none"
  IN  CASE tier = "MED" -> first("MED", "LRG", "XL")
        [] tier = "LRG" -> first("LRG", "MED", "XL")
        [] tier = "XL"  -> first("XL", "LRG", "MED")

\* C2: resolveTierVariant(workout, t), t in {MED, LRG, XL}, returns the variant
\* of the first tier present in the order MED->[MED,LRG,XL], LRG->[LRG,MED,XL],
\* XL->[XL,LRG,MED], with sourceTier naming that tier, and throws exactly when
\* none of the three tiers is present.
C2_TierFallback ==
  call.op = "resolveTierVariant" =>
    LET expected == ExpectedSourceTier(call.workout, call.tier)
    IN  IF expected = "none"
        THEN call.result.kind = "throw"
        ELSE /\ call.result.kind = "variant"
             /\ call.result.sourceTier = expected
             /\ call.result.variant = call.workout.tiers[expected]

\* A workout with only MED and LRG, asked for XL, is served LRG.
C2_Witness ==
  /\ call.op = "resolveTierVariant"
  /\ call.tier = "XL"
  /\ TierPresent(call.workout, "MED") /\ TierPresent(call.workout, "LRG")
  /\ ~TierPresent(call.workout, "XL")
  /\ call.result.kind = "variant"
  /\ call.result.sourceTier = "LRG"

----------------------------------------------------------------------------
(* Season Resolver on its own.                                              *)

Season(seasonId, startDay, endDay, timeZone, weekIds) ==
  [seasonId |-> seasonId, name |-> seasonId, startDate |-> DayString(startDay),
   endDate |-> DayString(endDay), timezone |-> timeZone, weekIds |-> weekIds]

\* Seasons around the start of daylight time: two from the Monday 2026-03-02
\* (one ending on the 23-hour Sunday 2026-03-08), one inside the first, one
\* right after it, one whose end precedes its start, one declared in UTC.
SeasonPool ==
  {Season("season-a", SpringMonday, SpringMonday + 6, DEFAULT_TIME_ZONE, <<>>),
   Season("season-b", SpringMonday, SpringMonday + 13, DEFAULT_TIME_ZONE, <<>>),
   Season("season-c", SpringMonday + 3, SpringMonday + 7, DEFAULT_TIME_ZONE, <<>>),
   Season("season-d", SpringMonday + 7, SpringMonday + 13, DEFAULT_TIME_ZONE, <<>>),
   Season("season-e", SpringMonday + 7, SpringMonday + 6, DEFAULT_TIME_ZONE, <<>>),
   Season("season-u", SpringMonday, SpringMonday + 13, "UTC", <<>>)}

SeasonLists == UNION {[1..n -> SeasonPool] : n \in 0..MaxSeasons}

\* 06:00Z..08:00Z straddle midnight in Los Angeles on either side of the
\* change to daylight time.
SeasonInstants == InstantsFrom(SpringMonday - 1, {6, 7, 8, 20})

InitSeason ==
  /\ \E seasons \in SeasonLists : data = [EmptyData EXCEPT !.seasons = seasons]
  /\ call = NoCall

ResolveActiveSeason ==
  \E date \in SeasonInstants, timeZone \in TimeZones :
    /\ call = NoCall
    /\ call' = [op |-> "resolveActiveSeason", date |-> date, timeZone |-> timeZone,
                result |-> resolveActiveSeason(data.seasons, date, timeZone)]
    /\ UNCHANGED data

NextSeason == ResolveActiveSeason

SpecSeason == InitSeason /\ [][NextSeason]_vars

\* The day number of the civil date an instant falls on in a zone.
QueryDay(date, timeZone) == (date + ZoneOffset(timeZone, date)) \div 24

\* The day number a civil date string of the data denotes.
DayOf(civilDate) == civilDateToEpochMs(civilDate) \div 24

\* The seasons of the list whose range [startDate, endDate] holds a day.
Containing(seasons, day) ==
  {i \in DOMAIN seasons :
     DayOf(seasons[i].startDate) <= day /\ day <= DayOf(seasons[i].endDate)}

\* C7: resolveActiveSeason takes a season's range as inclusive on both ends: a
\* query whose civil date is the startDate or the endDate of a season returns
\* a season, that one when no other season covers the date; a query one day
\* before the startDate or one day after the endDate returns null when no
\* season covers it.
C7_InclusiveRange ==
  (call.op = "resolveActiveSeason" /\ call.result.kind # "throw") =>
    LET seasons == data.seasons
        day     == QueryDay(call.date, call.timeZone)
    IN  \A i \in DOMAIN seasons :
          LET start == DayOf(seasons[i].startDate)
              end   == DayOf(seasons[i].endDate)
          IN  /\ (start <= end /\ day \in {start, end}) =>
                   /\ call.result.kind = "season"
                   /\ Containing(seasons, day) = {i} => call.result.season = seasons[i]
              /\ (day \in {start - 1, end + 1} /\ Containing(seasons, day) = {}) =>
                   call.result = Null

\* The last evening of a season, already the next day in UTC, is in the season.
C7_Witness ==
  /\ call.op = "resolveActiveSeason"
  /\ call.timeZone = DEFAULT_TIME_ZONE
  /\ call.result.kind = "season"
  /\ QueryDay(call.date, call.timeZone) = DayOf(call.result.season.endDate)
  /\ call.date \div 24 = DayOf(call.result.season.endDate) + 1
  /\ Cardinality(Containing(data.seasons, QueryDay(call.date, call.timeZone))) = 1

\* C8: when several seasons contain the query date, resolveActiveSeason returns
\* one of them whose startDate is the latest: no containing season with a
\* strictly later startDate is passed over.
C8_LatestStartWins ==
  (call.op = "resolveActiveSeason" /\ call.result.kind = "season") =>
    LET seasons == data.seasons
        day     == QueryDay(call.date, call.timeZone)
        within  == Containing(seasons, day)
    IN  /\ \E i \in within : seasons[i] = call.result.season
        /\ \A i \in within :
             DayOf(seasons[i].startDate) <= DayOf(call.result.season.startDate)

\* Two seasons contain the date and the later-starting one, listed first, wins.
C8_Witness ==
  /\ call.op = "resolveActiveSeason"
  /\ call.result.kind = "season"
  /\ Len(data.seasons) >= 2
  /\ data.seasons[1] = call.result.season
  /\ 2 \in Containing(data.seasons, QueryDay(call.date, call.timeZone))
  /\ DayOf(data.seasons[2].startDate) < DayOf(data.seasons[1].startDate)

----------------------------------------------------------------------------
(* Week Resolver on its own.                                                *)

RestSlots == [k \in Range(DAY_KEYS) |-> JsNull]

Week(weekId, seasonId, blockId, startDay, slots) ==
  [weekId |-> weekId, seasonId |-> seasonId, blockId |-> blockId,
   startDate |-> DayString(startDay), workouts |-> JsObject(slots)]

\* Days from the start of week-1 to the start of week-2: the same Monday, an
\* overlapping Thursday, the next Monday, the Monday after a gap week.
WeekGaps == {0, 3, 7, 14}

WeekIdLists ==
  UNION {[1..n -> {"week-1", "week-2", "week-9"}] : n \in 0..MaxWeekIds}

\* A season of three weeks from the Monday monday, with two week records.
WeekData(monday, gap, weekIds) ==
  [EmptyData EXCEPT
     !.seasons = <<Season("season-w", monday, monday + 20, DEFAULT_TIME_ZONE, weekIds)>>,
     !.weeks = <<Week("week-1", "season-w", "block-w", monday, RestSlots),
                 Week("week-2", "season-w", "block-w", monday + gap, RestSlots)>>]

\* Every hour of QueryDays days from Sunday 2026-03-01; the clock changes on
\* the Sunday that ends the first week.
WeekInstants == InstantsFrom(SpringMonday - 1, 0..23)

InitWeek ==
  /\ \E gap \in WeekGaps, weekIds \in WeekIdLists :
       data = WeekData(SpringMonday, gap, weekIds)
  /\ call = NoCall

ResolveWeekForDate ==
  \E i \in DOMAIN data.seasons, date \in WeekInstants, timeZone \in TimeZones :
    /\ call = NoCall
    /\ call' = [op |-> "resolveWeekForDate", season |-> data.seasons[i], date |-> date,
                timeZone |-> timeZone,
                result |-> resolveWeekForDate([kind |-> "season", season |-> data.seasons[i]],
                                              data.weeks, date, timeZone)]
    /\ UNCHANGED data

NextWeek == ResolveWeekForDate

SpecWeek == InitWeek /\ [][NextWeek]_vars

\* The week records season.weekIds names, in that order (last record per id).
OrderedWeeks(season, weeks) ==
  [i \in DOMAIN season.weekIds |-> weekLookup(weeks, season.weekIds[i])]

\* The positions of season.weekIds whose week has day in startDate..startDate+6.
Covering(season, weeks, day) ==
  {i \in DOMAIN season.weekIds :
     LET found == weekLookup(weeks, season.weekIds[i])
     IN  /\ found # Null
         /\ DayOf(found.week.startDate) <= day
         /\ day <= DayOf(found.week.startDate) + 6}

\* C9: resolveWeekForDate returns the first week, in season.weekIds order,
\* whose window [startDate, startDate + 6 days] contains the query's civil
\* date, with index its zero-based position in season.weekIds, and null when
\* no week's window contains the date (before all weeks, after them, in a gap).
C9_FirstCoveringWeek ==
  (call.op = "resolveWeekForDate" /\ call.result.kind # "throw") =>
    LET covering == Covering(call.season, data.weeks, QueryDay(call.date, call.timeZone))
    IN  IF covering = {}
        THEN call.result = Null
        ELSE LET first == CHOOSE i \in covering : \A j \in covering : i <= j
             IN  /\ call.result.kind = "week"
                 /\ call.result.index = first - 1
                 /\ call.result.week = weekLookup(data.weeks, call.season.weekIds[first]).week

\* The second week of the list is returned with index 1.
C9_Witness ==
  /\ call.op = "resolveWeekForDate"
  /\ call.result.kind = "week"
  /\ call.result.index = 1
  /\ call.result.week.weekId = "week-1"
  /\ call.season.weekIds = <<"week-2", "week-1">>

\* C10: a week window is exactly the 7 civil dates S..S+6 whatever the clock
\* does inside it: with consecutive weeks starting S and S+7, an instant
\* resolves to the first week iff its civil date in the zone is one of S..S+6
\* and to the second iff it is one of S+7..S+13, at every time of day.
C10_SevenCivilDays ==
  (/\ call.op = "resolveWeekForDate"
   /\ call.season.weekIds = <<"week-1", "week-2">>
   /\ DayOf(data.weeks[2].startDate) = DayOf(data.weeks[1].startDate) + 7) =>
    LET day   == QueryDay(call.date, call.timeZone)
        start == DayOf(data.weeks[1].startDate)
    IN  /\ (call.result.kind = "week" /\ call.result.week.weekId = "week-1")
             <=> (start <= day /\ day <= start + 6)
        /\ (call.result.kind = "week" /\ call.result.week.weekId = "week-2")
             <=> (start + 7 <= day /\ day <= start + 13)

\* The last hour of the 23-hour Sunday 2026-03-08 in Los Angeles (06:00Z on
\* the 9th, 166 hours after the week began) still belongs to the first week.
C10_Witness ==
  /\ call.op = "resolveWeekForDate"
  /\ call.timeZone = DEFAULT_TIME_ZONE
  /\ call.season.weekIds = <<"week-1", "week-2">>
  /\ DayOf(data.weeks[2].startDate) = SpringMonday + 7
  /\ call.date = (SpringMonday + 7) * 24 + 6
  /\ call.result.kind = "week"
  /\ call.result.week.weekId = "week-1"

----------------------------------------------------------------------------
(* Validator and Workout-of-Day Resolver on whole datasets.                 *)

Block(blockId, name, intent, weekIds) ==
  [blockId |-> blockId, name |-> name, intent |-> intent, weekIds |-> weekIds]

AllTiers == [t \in Tiers |-> VariantName(t)]

MedLrg == [t \in {"MED", "LRG"} |-> VariantName(t)]

NoTiers == [t \in {} |-> Falsy]

\* What a library holds of one version of WorkoutA.
LibraryOptions == {"absent", "published", "draft", "archived-empty"}

LibraryEntries(version, option) ==
  CASE option = "absent" -> <<>>
    [] option = "published" -> <<Workout(WorkoutA, version, "published", MedLrg)>>
    [] option = "draft" -> <<Workout(WorkoutA, version, "draft", AllTiers)>>
    [] option = "archived-empty" -> <<Workout(WorkoutA, version, "archived", NoTiers)>>
    [] option = "draft-and-published" ->
         <<Workout(WorkoutA, version, "draft", AllTiers),
           Workout(WorkoutA, version, "published", AllTiers)>>

RECURSIVE LibraryUpTo(_, _)
LibraryUpTo(choice, version) ==
  IF version = 0 THEN <<>>
  ELSE LibraryUpTo(choice, version - 1) \o LibraryEntries(version, choice[version])

\* The libraries: versions 1..MaxVersion of WorkoutA in version order, each
\* absent, published, a draft or archived without tiers; version 1 may also be
\* there twice, as a draft and published.
Libraries ==
  {LibraryUpTo(choice, MaxVersion) :
     choice \in {c \in [1..MaxVersion -> LibraryOptions \cup {"draft-and-published"}] :
                   \A v \in 2..MaxVersion : c[v] \in LibraryOptions}}

BaseLibrary == <<Workout(WorkoutA, 1, "published", AllTiers)>>

\* What a day slot may hold: the rest marker, a pinned reference to each
\* version, a bare workoutId, a pinned reference to an unknown workout, a
\* reference with version 0, a number.
SlotPool ==
  {JsNull, JsNumber, JsString(WorkoutA), JsString(workoutKey(WorkoutB, 1)),
   JsString(WorkoutA \o <<"@", "v", "0">>)}
  \cup {JsString(workoutKey(WorkoutA, v)) : v \in 1..MaxVersion}

\* The shapes of week.workouts: the seven keys, sun left out, an eighth key,
\* sun under another name, not an object.
Shapes == {"seven", "missing", "extra", "renamed", "not-object"}

ShapedWorkouts(shape, slots) ==
  CASE shape = "seven" -> JsObject(slots)
    [] shape = "missing" -> JsObject([k \in (DOMAIN slots) \ {"sun"} |-> slots[k]])
    [] shape = "extra" ->
         JsObject([k \in (DOMAIN slots) \cup {"extra"} |->
                     IF k = "extra" THEN JsNull ELSE slots[k]])
    [] shape = "renamed" ->
         JsObject([k \in ((DOMAIN slots) \ {"sun"}) \cup {"sunday"} |->
                     IF k = "sunday" THEN JsNull ELSE slots[k]])
    [] shape = "not-object" -> JsNull

\* The plan starts on Monday 2026-10-26; daylight time ends on the Sunday of
\* its first week.
PlanMonday == AutumnMonday

\* One season of three weeks with two week records, the second gap days after
\* the first; week-1 holds ref on Monday and week-2 on Sunday, the other days
\* rest; block-b is there, block-a may be.
PlanData(library, ref, shape, gap, hasBlockA) ==
  [seasons |-> <<Season("season-test", PlanMonday, PlanMonday + 20, DEFAULT_TIME_ZONE,
                        <<"week-1", "week-2">>)>>,
   blocks |-> (IF hasBlockA THEN <<Block("block-a", "Block A", "Base", <<"week-1">>)>>
               ELSE <<>>)
              \o <<Block("block-b", "Block B", "Build", <<"week-2">>)>>,
   weeks |-> <<[Week("week-1", "season-test", "block-a", PlanMonday,
                     [RestSlots EXCEPT !["mon"] = ref])
                  EXCEPT !.workouts = ShapedWorkouts(shape, [RestSlots EXCEPT !["mon"] = ref])],
               Week("week-2", "season-test", "block-b", PlanMonday + gap,
                    [RestSlots EXCEPT !["sun"] = ref])>>,
   workouts |-> library]

\* Datasets that vary the library and the reference, and datasets that vary
\* the reference and the structure around it.
Init ==
  /\ \/ \E library \in Libraries, ref \in SlotPool :
          data = PlanData(library, ref, "seven", 7, TRUE)
     \/ \E ref \in SlotPool, shape \in Shapes, gap \in {7, 14}, hasBlockA \in BOOLEAN :
          data = PlanData(BaseLibrary, ref, shape, gap, hasBlockA)
  /\ call = NoCall

\* 08:00Z and 20:00Z: the small hours and midday in Los Angeles.
PlanInstants == InstantsFrom(PlanMonday - 1, {8, 20})

AssertCalendarData ==
  \E timeZone \in TimeZones :
    /\ call = NoCall
    /\ call' = [op |-> "assertCalendarData", timeZone |-> timeZone,
                result |-> assertCalendarData(data, timeZone)]
    /\ UNCHANGED data

ResolveWorkoutOfDay ==
  \E date \in PlanInstants, timeZone \in TimeZones :
    /\ call = NoCall
    /\ call' = [op |-> "resolveWorkoutOfDay", date |-> date, timeZone |-> timeZone,
                result |-> resolveWorkoutOfDay(data, date, timeZone)]
    /\ UNCHANGED data

Next == AssertCalendarData \/ ResolveWorkoutOfDay

Spec == Init /\ [][Next]_vars

\* The day slot a query selects: the week the resolvers pick for the instant
\* and the value under the instant's weekday key; "none" when no week is
\* picked, "malformed" when the week has no well-formed workouts mapping.
SelectedSlot(d, date, timeZone) ==
  LET season == resolveActiveSeason(d.seasons, date, timeZone)
      picked == resolveWeekForDate(season, d.weeks, date, timeZone)
  IN  IF season.kind # "season" \/ picked.kind # "week"
        THEN [kind |-> "none"]
      ELSE IF assertWeekWorkoutsShape(picked.week) # Ok
        THEN [kind |-> "malformed", week |-> picked.week]
      ELSE [kind |-> "slot", week |-> picked.week,
            value |-> picked.week.workouts.slots[dayKeyForDate(date, timeZone)]]

\* The records of a library with a workoutId and a version.
Matching(workouts, workoutId, version) ==
  {i \in DOMAIN workouts :
     workouts[i].workoutId = workoutId /\ workouts[i].version = version}

HasBlock(d, blockId) == \E i \in DOMAIN d.blocks : d.blocks[i].blockId = blockId

\* C1: on every dataset assertCalendarData accepts (default timezone), and for
\* every query date, resolveWorkoutOfDay returns a ResolvedDay or null and
\* never throws.
C1_ValidatedNeverThrows ==
  (/\ call.op = "resolveWorkoutOfDay"
   /\ call.timeZone = DEFAULT_TIME_ZONE
   /\ assertCalendarData(data, DEFAULT_TIME_ZONE) = Ok) =>
    call.result.kind \in {"day", "null"}

\* C3: when the selected slot references a workout whose (workoutId, version)
\* record is a draft, resolveWorkoutOfDay throws: it returns neither the
\* draft, nor another version, nor null.  (The record, or every record should
\* the library repeat the pair, has status draft.)
C3_DraftThrows ==
  call.op = "resolveWorkoutOfDay" =>
    LET selected == SelectedSlot(data, call.date, call.timeZone)
        parsed   == parseWorkoutRef(selected.value.s)
        matching == Matching(data.workouts, parsed.workoutId, parsed.version)
    IN  (/\ selected.kind = "slot"
         /\ selected.value.t = "string"
         /\ parsed.kind = "ref"
         /\ matching # {}
         /\ \A i \in matching : data.workouts[i].status = "draft") =>
          call.result.kind = "throw"

\* A Monday slot pinned to a draft version, a published version beside it.
C3_Witness ==
  /\ call.op = "resolveWorkoutOfDay"
  /\ call.result.kind = "throw"
  /\ call.result.rule = "Workout not found or is draft"
  /\ \E i \in DOMAIN data.workouts :
       /\ data.workouts[i].status = "draft"
       /\ call.result.id = workoutKey(data.workouts[i].workoutId, data.workouts[i].version)
  /\ \E i \in DOMAIN data.workouts : data.workouts[i].status = "published"

\* C4, as stated: resolveWorkoutOfDay returns null only when no season's range
\* contains the query date, when no week of the active season covers it, or
\* when the day's slot holds the rest marker; a malformed week.workouts, a
\* malformed or dangling reference and a missing block of the picked week
\* make it throw.
C4_MissingBlockAlwaysThrows ==
  call.op = "resolveWorkoutOfDay" =>
    LET day      == QueryDay(call.date, call.timeZone)
        season   == resolveActiveSeason(data.seasons, call.date, call.timeZone)
        selected == SelectedSlot(data, call.date, call.timeZone)
        parsed   == parseWorkoutRef(selected.value.s)
    IN  /\ call.result = Null =>
             \/ Containing(data.seasons, day) = {}
             \/ /\ season.kind = "season"
                /\ Covering(season.season, data.weeks, day) = {}
             \/ /\ selected.kind = "slot"
                /\ selected.value = JsNull
        /\ selected.kind = "malformed" => call.result.kind = "throw"
        /\ (/\ selected.kind = "slot"
            /\ selected.value # JsNull
            /\ \/ selected.value.t # "string"
               \/ parsed.kind = "throw"
               \/ \A i \in Matching(data.workouts, parsed.workoutId, parsed.version) :
                    data.workouts[i].status = "draft") =>
             call.result.kind = "throw"
        /\ (selected.kind = "slot" /\ ~HasBlock(data, selected.week.blockId)) =>
             call.result.kind = "throw"

\* C4, amended: resolveWorkoutOfDay returns null only when no season's range
\* contains the query date, when no week of the active season covers it, or
\* when the day's slot holds the rest marker; once a week is picked, a
\* malformed week.workouts makes it throw, and on a day whose slot is not the
\* rest marker so do a slot that is no string, a malformed or dangling
\* reference and a missing block.
C4_NullOnlyWhenNoPlanOrRest ==
  call.op = "resolveWorkoutOfDay" =>
    LET day      == QueryDay(call.date, call.timeZone)
        season   == resolveActiveSeason(data.seasons, call.date, call.timeZone)
        selected == SelectedSlot(data, call.date, call.timeZone)
        parsed   == parseWorkoutRef(selected.value.s)
    IN  /\ call.result = Null =>
             \/ Containing(data.seasons, day) = {}
             \/ /\ season.kind = "season"
                /\ Covering(season.season, data.weeks, day) = {}
             \/ /\ selected.kind = "slot"
                /\ selected.value = JsNull
        /\ selected.kind = "malformed" => call.result.kind = "throw"
        /\ (/\ selected.kind = "slot"
            /\ selected.value # JsNull
            /\ \/ selected.value.t # "string"
               \/ parsed.kind = "throw"
               \/ \A i \in Matching(data.workouts, parsed.workoutId, parsed.version) :
                    data.workouts[i].status = "draft"
               \/ ~HasBlock(data, selected.week.blockId)) =>
             call.result.kind = "throw"

\* A Monday with a resolvable reference in a week whose block is missing
\* throws; the block is looked up only after the rest test.
C4_Witness ==
  /\ call.op = "resolveWorkoutOfDay"
  /\ call.result.kind = "throw"
  /\ call.result.rule = "Block not found in blocks data"
  /\ LET selected == SelectedSlot(data, call.date, call.timeZone)
     IN  /\ selected.kind = "slot"
         /\ selected.value.t = "string"
         /\ ~HasBlock(data, selected.week.blockId)

\* The non-draft versions of a workoutId in a library.
NonDraftVersions(workouts, workoutId) ==
  {workouts[i].version :
     i \in {j \in DOMAIN workouts :
              workouts[j].workoutId = workoutId /\ workouts[j].status # "draft"}}

\* C5: a bare reference (a workoutId with no @vN) in the selected slot is
\* accepted and resolves to the highest non-draft version of that workoutId
\* (here: when the library has one with a tier, and the week's block exists).
C5_BareReferenceResolvesLatest ==
  call.op = "resolveWorkoutOfDay" =>
    LET selected == SelectedSlot(data, call.date, call.timeZone)
        bare     == selected.value.s
        versions == NonDraftVersions(data.workouts, bare)
    IN  (/\ selected.kind = "slot"
         /\ selected.value.t = "string"
         /\ bare # <<>>
         /\ \A i \in DOMAIN bare : bare[i] \in IdChars
         /\ versions # {}
         /\ HasBlock(data, selected.week.blockId)
         /\ \A i \in DOMAIN data.workouts : DOMAIN data.workouts[i].tiers # {}) =>
          /\ call.result.kind = "day"
          /\ call.result.workout.workoutId = bare
          /\ call.result.workout.version = CHOOSE v \in versions : \A w \in versions : w <= v

PickedWeek(d, date, timeZone) ==
  LET season == resolveActiveSeason(d.seasons, date, timeZone)
      picked == resolveWeekForDate(season, d.weeks, date, timeZone)
  IN  IF season.kind = "season" /\ picked.kind = "week" THEN picked ELSE Null

\* C11: every result of resolveWorkoutOfDay other than null is a Resolved Day
\* with the resolved season, the week with its index within the season, the
\* block summary (blockId, name, intent), the workout record, a variant for
\* each of MED, LRG, XL and a tierSources entry for each of them.
C11_ResolvedDayHasAllParts ==
  (call.op = "resolveWorkoutOfDay" /\ call.result.kind = "day") =>
    LET picked == PickedWeek(data, call.date, call.timeZone)
    IN  /\ {"season", "week", "block", "workout", "tiers", "tierSources"}
             \subseteq DOMAIN call.result
        /\ call.result.season = resolveActiveSeason(data.seasons, call.date,
                                                    call.timeZone).season
        /\ call.result.week.weekId = picked.week.weekId
        /\ call.result.week.index = picked.index
        /\ DOMAIN call.result.block = {"blockId", "name", "intent"}
        /\ call.result.block.blockId = picked.week.blockId
        /\ \E i \in DOMAIN data.workouts : data.workouts[i] = call.result.workout
        /\ DOMAIN call.result.tiers = Tiers
        /\ DOMAIN call.result.tierSources = Tiers

\* C12: once a week is picked, resolveWorkoutOfDay throws when week.workouts
\* is not an object with exactly the keys mon..sun (a key missing, a key too
\* many, not an object), also when the slot of the queried weekday is there
\* and valid.
C12_ShapeCheckedBeforeSlot ==
  call.op = "resolveWorkoutOfDay" =>
    LET picked   == PickedWeek(data, call.date, call.timeZone)
        workouts == picked.week.workouts
    IN  (/\ picked # Null
         /\ \/ workouts.t # "object"
            \/ DOMAIN workouts.slots # Range(DAY_KEYS)) =>
          call.result.kind = "throw"

\* A Monday whose slot holds a resolvable reference, in a week whose workouts
\* carry an eighth key, throws for the shape.
C12_Witness ==
  /\ call.op = "resolveWorkoutOfDay"
  /\ call.result.kind = "throw"
  /\ call.result.rule = "week.workouts must have exactly 7 day keys"
  /\ LET picked == PickedWeek(data, call.date, call.timeZone)
         dayKey == dayKeyForDate(call.date, call.timeZone)
         slot   == picked.week.workouts.slots[dayKey]
     IN  /\ picked # Null
         /\ Range(DAY_KEYS) \subseteq DOMAIN picked.week.workouts.slots
         /\ dayKey = "mon"
         /\ slot.t = "string"
         /\ parseWorkoutRef(slot.s).kind = "ref"
         /\ resolveWorkoutByVersion(data.workouts, parseWorkoutRef(slot.s).workoutId,
                                    parseWorkoutRef(slot.s).version) # Null

\* C13: resolveActiveSeason returns null, and does not throw, when the seasons
\* all declare the expected timezone and none contains the query date; it
\* throws whenever a season of the list declares another timezone, wherever
\* that season stands and whether or not it contains the date.
C13_NullForNoSeasonThrowForZone ==
  call.op = "resolveActiveSeason" =>
    LET seasons == data.seasons
        foreign == {i \in DOMAIN seasons : seasons[i].timezone # call.timeZone}
        day     == QueryDay(call.date, call.timeZone)
    IN  /\ foreign # {} => call.result.kind = "throw"
        /\ (foreign = {} /\ Containing(seasons, day) = {}) => call.result = Null

\* The first season contains the date and declares the expected timezone, the
\* second declares another one and does not contain the date: the call throws.
C13_Witness ==
  /\ call.op = "resolveActiveSeason"
  /\ call.result.kind = "throw"
  /\ call.result.rule = "Season must use timezone"
  /\ Len(data.seasons) = 2
  /\ data.seasons[1].timezone = call.timeZone
  /\ data.seasons[2].timezone # call.timeZone
  /\ Containing(data.seasons, QueryDay(call.date, call.timeZone)) = {1}

\* C14: resolveWeekForDate throws when an id of season.weekIds has no record
\* in the weeks list, also when that id stands after the week that contains
\* the query date; such a call never returns null or a week.
C14_MissingWeekThrows ==
  call.op = "resolveWeekForDate" =>
    ((\E i \in DOMAIN call.season.weekIds :
        \A j \in DOMAIN data.weeks : data.weeks[j].weekId # call.season.weekIds[i])
       => call.result.kind = "throw")

\* week-1 contains the date and comes first; the id after it has no record.
C14_Witness ==
  /\ call.op = "resolveWeekForDate"
  /\ call.result.kind = "throw"
  /\ call.result.rule = "Week not found in weeks data"
  /\ call.season.weekIds = <<"week-1", "week-9">>
  /\ 1 \in Covering(call.season, data.weeks, QueryDay(call.date, call.timeZone))

\* A civil date string of the data denotes a Monday (2026-03-02 was one).
StartsOnMonday(civilDate) == (DayOf(civilDate) - SpringMonday) % 7 = 0

\* C15: resolveWeekForDate never returns a week whose startDate is not a
\* Monday: when the week whose window contains the query date (the first such
\* week in season.weekIds order) starts on another weekday, the call throws.
C15_OnlyMondayWeeks ==
  call.op = "resolveWeekForDate" =>
    LET covering == Covering(call.season, data.weeks, QueryDay(call.date, call.timeZone))
        first    == CHOOSE i \in covering : \A j \in covering : i <= j
    IN  /\ call.result.kind = "week" => StartsOnMonday(call.result.week.startDate)
        /\ (/\ covering # {}
            /\ ~StartsOnMonday(weekLookup(data.weeks, call.season.weekIds[first]).week.startDate))
             => call.result.kind = "throw"

\* The date falls in the window of a week that starts on a Thursday only.
C15_Witness ==
  /\ call.op = "resolveWeekForDate"
  /\ call.result.kind = "throw"
  /\ call.result.rule = "Week must start on Monday"
  /\ call.result.id = "week-2"
  /\ DayOf(data.weeks[2].startDate) = SpringMonday + 3
  /\ QueryDay(call.date, call.timeZone) = SpringMonday + 8

----------------------------------------------------------------------------
(* Validator on the structure of seasons, weeks and blocks.                 *)

\* First and last day of season-1, counted from the Monday week-1 starts on:
\* three weeks, the first week only, a start one day late, an end one day
\* short of the second week, a single day, an end before the start.
SeasonRanges == {<<0, 20>>, <<0, 6>>, <<1, 20>>, <<0, 12>>, <<0, 0>>, <<7, 0>>}

BlockWeekIdLists ==
  UNION {[1..n -> {"week-1", "week-2", "week-3", "week-9"}] : n \in 0..MaxWeekIds}

\* season-1 with week-1 and week-2 (gap days apart), season-2 with week-3;
\* block-2 holds week-3, and blocks1 is block-1 or nothing.  Dates are
\* calendar dates written YYYY-MM-DD.
StructData(gap, range, weekIds, blocks1) ==
  [seasons |-> <<Season("season-1", SpringMonday + range[1], SpringMonday + range[2],
                        DEFAULT_TIME_ZONE, weekIds),
                 Season("season-2", SpringMonday + 21, SpringMonday + 27,
                        DEFAULT_TIME_ZONE, <<"week-3">>)>>,
   blocks |-> blocks1 \o <<Block("block-2", "Block 2", "Build", <<"week-3">>)>>,
   weeks |-> <<Week("week-1", "season-1", "block-1", SpringMonday, RestSlots),
               Week("week-2", "season-1", "block-1", SpringMonday + gap, RestSlots),
               Week("week-3", "season-2", "block-2", SpringMonday + 21, RestSlots)>>,
   workouts |-> <<>>]

\* Libraries for the week loop: nothing, w-a v1 published, w-a v1 as a draft.
ContentLibraries ==
  {<<>>, BaseLibrary, <<Workout(WorkoutA, 1, "draft", AllTiers)>>}

\* The structure with season-1 over three weeks and no block-1, week-2 a week
\* after week-1 with ref on Wednesday in a workouts object of the given shape.
ContentData(weekIds, shape, ref, library) ==
  [StructData(7, <<0, 20>>, weekIds, <<>>) EXCEPT
     !.weeks[2].workouts = ShapedWorkouts(shape, [RestSlots EXCEPT !["wed"] = ref]),
     !.workouts = library]

\* Datasets that vary season-1, datasets that vary block-1, and datasets that
\* vary what week-2 holds and whether season-1 names it.
InitValidate ==
  /\ \/ \E gap \in WeekGaps, range \in SeasonRanges, weekIds \in WeekIdLists :
          data = StructData(gap, range, weekIds, <<>>)
     \/ \E weekIds \in {<<"week-1", "week-2">>, <<"week-1">>}, shape \in Shapes,
           ref \in SlotPool, library \in ContentLibraries :
          data = ContentData(weekIds, shape, ref, library)
     \/ \E gap \in WeekGaps, weekIds \in {<<"week-1", "week-2">>, <<"week-1">>},
           blockWeekIds \in BlockWeekIdLists :
          data = StructData(gap, <<0, 20>>, weekIds,
                            <<Block("block-1", "Block 1", "Base", blockWeekIds)>>)
  /\ call = NoCall

NextValidate == AssertCalendarData

SpecValidate == InitValidate /\ [][NextValidate]_vars

\* The records of the weeks collection with an id.
WeeksNamed(weekId) == {i \in DOMAIN data.weeks : data.weeks[i].weekId = weekId}

\* The day number a week id's record starts on.
WeekDay(weekId) == DayOf(weekLookup(data.weeks, weekId).week.startDate)

C17_SeasonContainsItsWeeks ==
  (call.op = "assertCalendarData" /\ call.result = Ok) =>
    \A i \in DOMAIN data.seasons :
      \A k \in DOMAIN data.seasons[i].weekIds :
        /\ DayOf(data.seasons[i].startDate) <= WeekDay(data.seasons[i].weekIds[k])
        /\ DayOf(data.seasons[i].endDate) >= WeekDay(data.seasons[i].weekIds[k]) + 6

\* A season that ends on the Saturday of its second week is rejected: the
\* week starts inside the season and its Sunday falls outside.
C17_Witness ==
  /\ call.op = "assertCalendarData"
  /\ call.result.kind = "throw"
  /\ call.result.rule = "Season must contain week"
  /\ data.seasons[1].weekIds = <<"week-1", "week-2">>
  /\ WeekDay("week-2") = WeekDay("week-1") + 7
  /\ DayOf(data.seasons[1].startDate) = WeekDay("week-1")
  /\ DayOf(data.seasons[1].endDate) = WeekDay("week-2") + 5

\* C18: in every dataset assertCalendarData accepts, every season has
\* startDate < endDate; a season of one day, or one that ends before it
\* starts, is never accepted.
C18_SeasonStartBeforeEnd ==
  (call.op = "assertCalendarData" /\ call.result = Ok) =>
    \A i \in DOMAIN data.seasons :
      DayOf(data.seasons[i].startDate) < DayOf(data.seasons[i].endDate)

\* The shortest season accepted: one week, Monday to Sunday.
C18_Witness ==
  /\ call.op = "assertCalendarData"
  /\ call.result = Ok
  /\ data.seasons[1].weekIds = <<"week-1">>
  /\ DayOf(data.seasons[1].endDate) = DayOf(data.seasons[1].startDate) + 6

\* C19: in every dataset assertCalendarData accepts, the weeks a season lists
\* do not overlap: for consecutive weekA, weekB of season.weekIds,
\* weekB.startDate >= weekA.startDate + 7 days.
C19_SeasonWeeksDoNotOverlap ==
  (call.op = "assertCalendarData" /\ call.result = Ok) =>
    \A i \in DOMAIN data.seasons :
      LET ids == data.seasons[i].weekIds
      IN  \A k \in 2..Len(ids) : WeekDay(ids[k]) >= WeekDay(ids[k - 1]) + 7

\* Accepted: two weeks of one season with a free week between them.
C19_Witness ==
  /\ call.op = "assertCalendarData"
  /\ call.result = Ok
  /\ data.seasons[1].weekIds = <<"week-1", "week-2">>
  /\ WeekDay("week-2") = WeekDay("week-1") + 14

C21_WeekParentsExist ==
  (call.op = "assertCalendarData" /\ call.result = Ok) =>
    \A w \in DOMAIN data.weeks :
      /\ HasBlock(data, data.weeks[w].blockId)
      /\ \E s \in DOMAIN data.seasons : data.seasons[s].seasonId = data.weeks[w].seasonId

\* C23: assertCalendarData rejects every dataset with a week whose startDate
\* is not a Monday, also a week that no season's weekIds names: in an accepted
\* dataset every record of the weeks collection starts on a Monday.
C23_EveryWeekStartsOnMonday ==
  (call.op = "assertCalendarData" /\ call.result = Ok) =>
    \A w \in DOMAIN data.weeks : StartsOnMonday(data.weeks[w].startDate)

\* A week record of the weeks collection that breaks a rule of the week loop:
\* its workouts is not an object with exactly the seven day keys, or a day
\* that is not null is no string, no workoutId@vN, or names no non-draft
\* workout of the library.
DefectiveWeek(d, week) ==
  \/ week.workouts.t # "object"
  \/ DOMAIN week.workouts.slots # Range(DAY_KEYS)
  \/ \E k \in Range(DAY_KEYS) :
       LET slot == week.workouts.slots[k]
       IN  /\ slot # JsNull
           /\ \/ slot.t # "string"
              \/ parseWorkoutRef(slot.s).kind # "ref"
              \/ parseWorkoutRef(slot.s).version \notin
                   NonDraftVersions(d.workouts, parseWorkoutRef(slot.s).workoutId)

\* The week ids some season's weekIds names.
ReferencedWeekIds(d) == UNION {Range(d.seasons[s].weekIds) : s \in DOMAIN d.seasons}

\* C22: assertCalendarData rejects every dataset in which some record of
\* weeks, named by a season or not, lacks exactly the seven weekday keys or
\* holds a non-null day that does not parse as workoutId@vN or matches no
\* non-draft workout.
C22_EveryWeekRecordChecked ==
  call.op = "assertCalendarData" =>
    ((\E w \in DOMAIN data.weeks : DefectiveWeek(data, data.weeks[w]))
       => call.result.kind = "throw")

\* An unreferenced week that names a draft is rejected for it.
C22_Witness ==
  /\ call.op = "assertCalendarData"
  /\ call.timeZone = DEFAULT_TIME_ZONE
  /\ "week-2" \notin ReferencedWeekIds(data)
  /\ data.weeks[2].workouts.t = "object"
  /\ DOMAIN data.weeks[2].workouts.slots = Range(DAY_KEYS)
  /\ data.weeks[2].workouts.slots["wed"] = JsString(workoutKey(WorkoutA, 1))
  /\ data.workouts # <<>>
  /\ call.result = Throw("Workout not found or is draft", "week-2")

\* The ids an error can name to point at a season, a block or a week: the ids
\* of the records, and the week ids that seasons and blocks list.
EntityIds(d) ==
  {d.seasons[i].seasonId : i \in DOMAIN d.seasons}
    \cup {d.blocks[i].blockId : i \in DOMAIN d.blocks}
    \cup {d.weeks[i].weekId : i \in DOMAIN d.weeks}
    \cup ReferencedWeekIds(d)
    \cup UNION {Range(d.blocks[i].weekIds) : i \in DOMAIN d.blocks}

\* C24: every error assertCalendarData raises, the errors for wrong weekday
\* keys and for a day value that is not a string included, names the id of
\* the season, block or week at fault.
C24_ErrorNamesEntity ==
  (call.op = "assertCalendarData" /\ call.result.kind = "throw") =>
    call.result.id \in EntityIds(data)

----------------------------------------------------------------------------
(* Civil date strings that are not calendar dates.                          *)

DateText(year, month, day) == formatCivilDate([year |-> year, month |-> month, day |-> day])

\* Calendar dates (two Mondays, a Sunday, another Sunday), YYYY-MM-DD strings
\* that name no calendar date (February 30 and 36, month 13, day 0), and a
\* string with no day part.
DateTexts ==
  {DateText(2026, 2, 23), DateText(2026, 3, 2), DateText(2026, 3, 8), DateText(2026, 3, 22),
   DateText(2026, 2, 30), DateText(2026, 2, 36), DateText(2026, 13, 1), DateText(2026, 3, 0),
   <<"2", "0", "2", "6", "-", "0", "3">>}

\* One season with one week, the three dates as given.
DatedData(startDate, endDate, weekStartDate) ==
  [EmptyData EXCEPT
     !.seasons = <<[Season("season-1", SpringMonday, SpringMonday + 6, DEFAULT_TIME_ZONE,
                           <<"week-1">>)
                      EXCEPT !.startDate = startDate, !.endDate = endDate]>>,
     !.weeks = <<[Week("week-1", "season-1", "block-1", SpringMonday, RestSlots)
                    EXCEPT !.startDate = weekStartDate]>>]

\* One season from 2026-02-23 to 2026-03-22 with two weeks in list order, the
\* start dates as given.
DatedWeeksData(weekStartDate1, weekStartDate2) ==
  [EmptyData EXCEPT
     !.seasons = <<Season("season-1", SpringMonday - 7, SpringMonday + 20, DEFAULT_TIME_ZONE,
                          <<"week-1", "week-2">>)>>,
     !.weeks = <<[Week("week-1", "season-1", "block-1", SpringMonday, RestSlots)
                    EXCEPT !.startDate = weekStartDate1],
                 [Week("week-2", "season-1", "block-1", SpringMonday, RestSlots)
                    EXCEPT !.startDate = weekStartDate2]>>]

InitDate ==
  /\ \/ \E startDate \in DateTexts, endDate \in DateTexts, weekStartDate \in DateTexts :
          data = DatedData(startDate, endDate, weekStartDate)
     \/ \E weekStartDate1 \in DateTexts, weekStartDate2 \in DateTexts :
          data = DatedWeeksData(weekStartDate1, weekStartDate2)
  /\ call = NoCall

\* The civil date strings of a dataset.
DatesOf(d) ==
  {d.seasons[i].startDate : i \in DOMAIN d.seasons}
    \cup {d.seasons[i].endDate : i \in DOMAIN d.seasons}
    \cup {d.weeks[i].startDate : i \in DOMAIN d.weeks}

CivilDateToEpochMs ==
  \E civilDate \in DatesOf(data) :
    /\ call = NoCall
    /\ call' = [op |-> "civilDateToEpochMs", civilDate |-> civilDate,
                result |-> IF civilDateIsValid(civilDate)
                           THEN [kind |-> "ms", hours |-> civilDateToEpochMs(civilDate)]
                           ELSE Throw("Invalid civil date", civilDate)]
    /\ UNCHANGED data

NextDate == CivilDateToEpochMs \/ AssertCalendarData

SpecDate == InitDate /\ [][NextDate]_vars

\* A string is a calendar date when it reads YYYY-MM-DD with a month 1..12
\* and a day that month has in that year.
IsCalendarDate(civilDate) ==
  LET parts == SplitDash(civilDate)
      year  == StringToNumber(parts[1])
      month == StringToNumber(parts[2])
      day   == StringToNumber(parts[3])
  IN  /\ Len(parts) = 3
      /\ Len(parts[1]) = 4 /\ Len(parts[2]) = 2 /\ Len(parts[3]) = 2
      /\ \A i \in 1..3 : IsIntegerString(parts[i])
      /\ month \in 1..12
      /\ day >= 1
      /\ CivilFromDays(DaysFromCivil(year, month, day)) =
           [year |-> year, month |-> month, day |-> day]

\* C25: civilDateToEpochMs rejects every YYYY-MM-DD string that is not a
\* calendar date, and a dataset with such a string as a season's startDate
\* or endDate or a week's startDate is not accepted with the date rolled
\* over.
C25_UnrealDatesRejected ==
  /\ (call.op = "civilDateToEpochMs" /\ ~IsCalendarDate(call.civilDate))
       => call.result.kind = "throw"
  /\ (call.op = "assertCalendarData" /\ call.result = Ok)
       => \A civilDate \in DatesOf(data) : IsCalendarDate(civilDate)

\* C26: when two or more seasons containing the query date share the latest
\* startDate, resolveActiveSeason returns the one of them that comes last in
\* the list it was given, so the result is fixed by the list and the date.
C26_LastOfTiedSeasons ==
  (call.op = "resolveActiveSeason" /\ call.result.kind = "season") =>
    LET seasons == data.seasons
        within  == Containing(seasons, QueryDay(call.date, call.timeZone))
        tied    == {i \in within :
                      \A j \in within : DayOf(seasons[j].startDate) <= DayOf(seasons[i].startDate)}
    IN  /\ tied # {}
        /\ call.result.season = seasons[CHOOSE i \in tied : \A j \in tied : j <= i]

\* Two different seasons with the same start contain the date; the second wins.
C26_Witness ==
  /\ call.op = "resolveActiveSeason"
  /\ call.result.kind = "season"
  /\ Len(data.seasons) = 2
  /\ Containing(data.seasons, QueryDay(call.date, call.timeZone)) = {1, 2}
  /\ data.seasons[1].startDate = data.seasons[2].startDate
  /\ data.seasons[1] # data.seasons[2]
  /\ call.result.season = data.seasons[2]

\* C27: in every dataset assertCalendarData accepts, for every season and
\* every civil date of its range, at most one week of the season's weekIds
\* has a 7-day window that holds the date.
C27_AtMostOneWeekCoversADay ==
  (call.op = "assertCalendarData" /\ call.result = Ok) =>
    \A i \in DOMAIN data.seasons :
      \A day \in DayOf(data.seasons[i].startDate)..DayOf(data.seasons[i].endDate) :
        Cardinality(Covering(data.seasons[i], data.weeks, day)) <= 1

----------------------------------------------------------------------------
(* Workout-of-Day Resolver on overlapping seasons.                          *)

\* Two published versions of w-a.
TwoVersionLibrary ==
  <<Workout(WorkoutA, 1, "published", AllTiers), Workout(WorkoutA, 2, "published", MedLrg)>>

\* A week in which no two neighbouring days hold the same value.
AlternatingSlots ==
  [k \in Range(DAY_KEYS) |->
     CASE k \in {"mon", "fri"} -> JsString(workoutKey(WorkoutA, 1))
       [] k \in {"wed", "sun"} -> JsString(workoutKey(WorkoutA, 2))
       [] OTHER -> JsNull]

\* Where season-new starts, in days after season-old.
NewSeasonStarts == {0, 3, 7}

\* season-old runs two weeks from the plan's Monday with week-1 and week-2;
\* season-new, when there, ends with it and has week-3 only, on the second
\* Monday.
OverlapData(newStart, newFirst, hasNew) ==
  LET old  == Season("season-old", PlanMonday, PlanMonday + 13, DEFAULT_TIME_ZONE,
                     <<"week-1", "week-2">>)
      new  == IF ~hasNew THEN <<>>
              ELSE <<Season("season-new", PlanMonday + newStart, PlanMonday + 13,
                            DEFAULT_TIME_ZONE, <<"week-3">>)>>
  IN  [seasons |-> IF newFirst THEN new \o <<old>> ELSE <<old>> \o new,
       blocks |-> <<Block("block-a", "Block A", "Base", <<"week-1", "week-2">>),
                    Block("block-b", "Block B", "Build", <<"week-3">>)>>,
       weeks |-> <<Week("week-1", "season-old", "block-a", PlanMonday, AlternatingSlots),
                   Week("week-2", "season-old", "block-a", PlanMonday + 7, AlternatingSlots),
                   Week("week-3", "season-new", "block-b", PlanMonday + 7, AlternatingSlots)>>,
       workouts |-> TwoVersionLibrary]

InitOverlap ==
  /\ \E newStart \in NewSeasonStarts, newFirst \in BOOLEAN, hasNew \in BOOLEAN :
       data = OverlapData(newStart, newFirst, hasNew)
  /\ call = NoCall

\* 07:00Z is midnight in Los Angeles on daylight time and 23:00 of the day
\* before on standard time.
OverlapInstants == InstantsFrom(PlanMonday - 1, {7, 8, 20})

ResolveWorkoutOfDayOverlap ==
  \E date \in OverlapInstants, timeZone \in TimeZones :
    /\ call = NoCall
    /\ call' = [op |-> "resolveWorkoutOfDay", date |-> date, timeZone |-> timeZone,
                result |-> resolveWorkoutOfDay(data, date, timeZone)]
    /\ UNCHANGED data

NextOverlap == ResolveWorkoutOfDayOverlap

SpecOverlap == InitOverlap /\ [][NextOverlap]_vars

\* C28: whenever resolveWorkoutOfDay, under the default timezone, answers from
\* a week (a Resolved Day, or null for a rest day), the day key it read is
\* the k-th of mon..sun, k the number of calendar days from the week's
\* startDate to the query's civil date, 0..6: the answer is what the week
\* holds under that key.
C28_KeyMatchesOffset ==
  (/\ call.op = "resolveWorkoutOfDay"
   /\ call.timeZone = DEFAULT_TIME_ZONE
   /\ call.result.kind \in {"day", "null"}
   /\ PickedWeek(data, call.date, call.timeZone) # Null) =>
    LET week == PickedWeek(data, call.date, call.timeZone).week
        k    == QueryDay(call.date, call.timeZone) - DayOf(week.startDate)
        slot == week.workouts.slots[DAY_KEYS[k + 1]]
    IN  /\ k \in 0..6
        /\ call.result = Null => slot = JsNull
        /\ call.result.kind = "day" =>
             slot = JsString(workoutKey(call.result.workout.workoutId,
                                        call.result.workout.version))

\* Midday in Los Angeles on the Sunday daylight time ended: the sixth day of
\* the week that began on daylight time, read under sun.
C28_Witness ==
  /\ call.op = "resolveWorkoutOfDay"
  /\ call.timeZone = DEFAULT_TIME_ZONE
  /\ call.date = (PlanMonday + 6) * 24 + 20
  /\ call.result.kind = "day"
  /\ call.result.week.weekId = "week-1"
  /\ call.result.workout.version = 2

\* The position, in the list, of the season resolveActiveSeason is to choose
\* for a day: among the seasons holding the day, the last of those with the
\* latest start.
ChosenSeason(seasons, day) ==
  LET within == Containing(seasons, day)
      tied   == {i \in within :
                   \A j \in within : DayOf(seasons[j].startDate) <= DayOf(seasons[i].startDate)}
  IN  CHOOSE i \in tied : \A j \in tied : j <= i

\* C29: resolveWorkoutOfDay looks for the week in the one season
\* resolveActiveSeason chooses: when that season has no week for the date the
\* result is null, also when another season holding the date has a week with
\* a workout that day; a Resolved Day is always from a week of the chosen
\* season.
C29_OnlyChosenSeasonConsulted ==
  (/\ call.op = "resolveWorkoutOfDay"
   /\ call.timeZone = DEFAULT_TIME_ZONE
   /\ Containing(data.seasons, QueryDay(call.date, call.timeZone)) # {}) =>
    LET day    == QueryDay(call.date, call.timeZone)
        chosen == data.seasons[ChosenSeason(data.seasons, day)]
    IN  /\ Covering(chosen, data.weeks, day) = {} => call.result = Null
        /\ call.result.kind = "day" => call.result.week.weekId \in Range(chosen.weekIds)

\* Null on a Friday of season-new's weekless first days, while season-old
\* holds the date too and its week-1 has a workout on Friday.
C29_Witness ==
  /\ call.op = "resolveWorkoutOfDay"
  /\ call.timeZone = DEFAULT_TIME_ZONE
  /\ call.result = Null
  /\ LET day == QueryDay(call.date, call.timeZone)
     IN  /\ Cardinality(Containing(data.seasons, day)) = 2
         /\ data.seasons[ChosenSeason(data.seasons, day)].seasonId = "season-new"
         /\ \E i \in DOMAIN data.seasons :
              /\ data.seasons[i].seasonId = "season-old"
              /\ \E k \in Covering(data.seasons[i], data.weeks, day) :
                   weekLookup(data.weeks, data.seasons[i].weekIds[k]).week
                     .workouts.slots[dayKeyForDate(call.date, call.timeZone)] # JsNull

----------------------------------------------------------------------------
(* Selector factory.                                                        *)

\* An options object: validate is undefined, true, false or 0 (a falsy value
\* that is not false); timeZone is undefined or a zone name.
Undefined == "undefined"

OptionValidateValues == {Undefined, "true", "false", "0"}

OptionTimeZoneValues == {Undefined} \cup TimeZones

\* options.timeZone ?? DEFAULT_TIME_ZONE, and a timeZone parameter with the
\* default DEFAULT_TIME_ZONE: both take the default for undefined.
timeZoneOrDefault(timeZone) == IF timeZone = Undefined THEN DEFAULT_TIME_ZONE ELSE timeZone

\* A factory that validates only when options.validate is true.
createCalendarSelectorsValidateIfTrue(d, options) ==
  With(IF options.validate = "true"
       THEN assertCalendarData(d, timeZoneOrDefault(options.timeZone))
       ELSE Ok,
       LAMBDA checked :
         IF checked # Ok THEN checked
         ELSE [kind |-> "selectors", data |-> d, options |-> options])

\* The factory: the error of the validator, or the selectors, which are
\* closures over data and options.
createCalendarSelectors(d, options) ==
  LET shouldValidate == options.validate # "false"
  IN  With(IF shouldValidate
           THEN assertCalendarData(d, timeZoneOrDefault(options.timeZone))
           ELSE Ok,
           LAMBDA checked :
             IF checked # Ok THEN checked
             ELSE [kind |-> "selectors", data |-> d, options |-> options])

selectorResolveActiveSeason(selectors, date) ==
  resolveActiveSeason(selectors.data.seasons, date,
                      timeZoneOrDefault(selectors.options.timeZone))

selectorResolveWeekForDate(selectors, season, date) ==
  resolveWeekForDate(season, selectors.data.weeks, date,
                     timeZoneOrDefault(selectors.options.timeZone))

selectorResolveWorkoutOfDay(selectors, date) ==
  resolveWorkoutOfDay(selectors.data, date, timeZoneOrDefault(selectors.options.timeZone))

\* The plan with week.workouts whole or short of a key, and each reference.
InitSelectors ==
  /\ \E ref \in SlotPool, shape \in {"seven", "missing"} :
       data = PlanData(BaseLibrary, ref, shape, 7, TRUE)
  /\ call = NoCall

\* The evening before the plan, its first Monday and its second Sunday, at
\* 20:00Z.
SelectorInstants == {(PlanMonday + k) * 24 + 20 : k \in {0 - 1, 0, 13}}

CreateCalendarSelectors ==
  \E validate \in OptionValidateValues, timeZone \in OptionTimeZoneValues :
    LET options == [validate |-> validate, timeZone |-> timeZone]
    IN  /\ call = NoCall
        /\ call' = [op |-> "createCalendarSelectors", options |-> options,
                    result |-> createCalendarSelectors(data, options)]
        /\ UNCHANGED data

\* A call of a selector the factory returned.
HasSelectors == call.op = "createCalendarSelectors" /\ call.result.kind = "selectors"

SelectorResolveActiveSeason ==
  \E date \in SelectorInstants :
    /\ HasSelectors
    /\ call' = [op |-> "selectors.resolveActiveSeason", options |-> call.options,
                date |-> date,
                result |-> selectorResolveActiveSeason(call.result, date)]
    /\ UNCHANGED data

SelectorResolveWeekForDate ==
  \E date \in SelectorInstants,
     season \in {Null} \cup {[kind |-> "season", season |-> data.seasons[i]] :
                               i \in DOMAIN data.seasons} :
    /\ HasSelectors
    /\ call' = [op |-> "selectors.resolveWeekForDate", options |-> call.options,
                season |-> season, date |-> date,
                result |-> selectorResolveWeekForDate(call.result, season, date)]
    /\ UNCHANGED data

SelectorResolveWorkoutOfDay ==
  \E date \in SelectorInstants :
    /\ HasSelectors
    /\ call' = [op |-> "selectors.resolveWorkoutOfDay", options |-> call.options,
                date |-> date,
                result |-> selectorResolveWorkoutOfDay(call.result, date)]
    /\ UNCHANGED data

NextSelectors ==
  \/ CreateCalendarSelectors
  \/ SelectorResolveActiveSeason
  \/ SelectorResolveWeekForDate
  \/ SelectorResolveWorkoutOfDay

SpecSelectors == InitSelectors /\ [][NextSelectors]_vars

====
